---- MODULE Spec2Model ----
(***************************************************************************)
(* A model of extract_data.py: the ingestion of pull-request and issue     *)
(* records, the global facts (first merge per author, maintainers) and the *)
(* per-timeframe aggregation into the report.                              *)
(*                                                                         *)
(* Representation.                                                         *)
(*  - A timestamp is the sequence of the date components it carries:       *)
(*    <<y, m, d>> is "YYYY-MM-DDT00:00:00Z" (10 characters or more),       *)
(*    <<y, m>> is the 7 characters "YYYY-MM", <<y>> the 4 characters       *)
(*    "YYYY", and <<>> the empty or absent string.  len(s) < 10 is         *)
(*    Len(ts) < 3.  String order on full timestamps is lexicographic order *)
(*    on the components.                                                   *)
(*  - A period key is the sequence of the numbers its string is formatted  *)
(*    from: "2021" is <<2021>>, "2021-Q1" is <<2021, 1>> in the quarter    *)
(*    timeframe and "2021-02" is <<2021, 2>> in the month timeframe.       *)
(*  - round(x, 1) is kept in tenths: 2.0 is 20.                            *)
(*  - A Python dict is a function; None is the value None below.           *)
(***************************************************************************)
EXTENDS Integers, Sequences, FiniteSets, TLC

VARIABLES
    USERNAME_MAP,        \* the rename table (old -> new)
    pulls,               \* the PR files of the backup, in os.listdir order
    issues,              \* the issue files of the backup, in os.listdir order
    pc,                  \* position of main()
    idx,                 \* index of the next file / timeframe of the running loop
    merged_prs, closed_prs, all_prs, merge_actors,
    comment_counts, label_counts_pr, label_counts_issue,
    review_age_events, reviews_received, pr_activity,
    all_maintainers, author_first_merge,
    timeframes,          \* timeframe -> bundle, the report
    handle, login, seen, links   \* one call of map_username, stepped

vars == <<USERNAME_MAP, pulls, issues, pc, idx, merged_prs, closed_prs, all_prs,
          merge_actors, comment_counts, label_counts_pr, label_counts_issue,
          review_age_events, reviews_received, pr_activity, all_maintainers,
          author_first_merge, timeframes, handle, login, seen, links>>

None == "<None>"

COMMENT_THRESHOLD == 100

_SKIP_ACTIVITY_EVENTS ==
    {"subscribed", "mentioned", "referenced", "cross-referenced", "locked", "unlocked"}

_IGNORE_USERS == {"DrahtBot"}

Timeframes == {"year", "quarter", "month"}

TimeframeOrder == <<"year", "quarter", "month">>

EmptyDict == <<>>

\* d.get(k, default)
Get(d, k, default) == IF k \in DOMAIN d THEN d[k] ELSE default

\* d[k] += 1 on a defaultdict(int)
Incr(d, k) == IF k \in DOMAIN d THEN [d EXCEPT ![k] = @ + 1] ELSE d @@ (k :> 1)

\* d[p][u] += 1 on a defaultdict(lambda: defaultdict(int))
Incr2(d, p, u) ==
    IF p \in DOMAIN d THEN [d EXCEPT ![p] = Incr(@, u)] ELSE d @@ (p :> (u :> 1))

\* for tf, period in keys.items(): out[tf][period][u] += 1
IncrAll(out, keys, u) == [tf \in Timeframes |-> Incr2(out[tf], keys[tf], u)]

------------------------------------------------------------------------------
(* map_username *)

\* the loop condition of map_username
map_cond(l, s) == l \in DOMAIN USERNAME_MAP /\ l \notin s

RECURSIVE map_loop(_, _)
map_loop(l, s) ==
    IF map_cond(l, s) THEN map_loop(USERNAME_MAP[l], s \cup {l}) ELSE l

\* mutation: one lookup, the chain is not followed
map_username_one_link(l) == IF l \in DOMAIN USERNAME_MAP THEN USERNAME_MAP[l] ELSE l

\* mutation: no lookup at all
map_username_raw(l) == l

map_username(l) == map_loop(l, {})

------------------------------------------------------------------------------
(* period_keys and timestamp arithmetic *)

\* datetime.fromisoformat raises ValueError on a string without a full date;
\* subscripting a missing "created_at" raises KeyError
Raises(ts) == Len(ts) < 3

\* mutation: the quarter computed as month // 3 + 1
period_keys_quarter_shifted(ts) ==
    [year    |-> <<ts[1]>>,
     quarter |-> <<ts[1], (ts[2] \div 3) + 1>>,
     month   |-> <<ts[1], ts[2]>>]

period_keys(ts) ==
    [year    |-> <<ts[1]>>,
     quarter |-> <<ts[1], ((ts[2] - 1) \div 3) + 1>>,
     month   |-> <<ts[1], ts[2]>>]

IsLeap(y) == (y % 4 = 0) /\ ((y % 100 # 0) \/ (y % 400 = 0))

DaysBeforeMonth(y, m) ==
    <<0, 31, 59, 90, 120, 151, 181, 212, 243, 273, 304, 334>>[m]
    + (IF m > 2 /\ IsLeap(y) THEN 1 ELSE 0)

\* datetime.toordinal of the date
Ordinal(ts) ==
    LET y1 == ts[1] - 1
    IN  365 * y1 + (y1 \div 4) - (y1 \div 100) + (y1 \div 400)
        + DaysBeforeMonth(ts[1], ts[2]) + ts[3]

\* (b - a).total_seconds() / 86400 for two midnight timestamps
DaysBetween(a, b) == Ordinal(b) - Ordinal(a)

\* a < b on two full timestamps (string comparison)
TsLess(a, b) ==
    \/ a[1] < b[1]
    \/ a[1] = b[1] /\ a[2] < b[2]
    \/ a[1] = b[1] /\ a[2] = b[2] /\ a[3] < b[3]

\* a < b on two period keys of one timeframe (string comparison)
PeriodLess(a, b) ==
    \/ a[1] < b[1]
    \/ Len(a) > 1 /\ a[1] = b[1] /\ a[2] < b[2]

RECURSIVE SumSeq(_)
SumSeq(s) == IF s = <<>> THEN 0 ELSE Head(s) + SumSeq(Tail(s))

\* round(num / den, 1) in tenths, den > 0, num >= 0: Python rounds a float
\* tie to the even digit; for the list lengths of this model (up to 5) a tie
\* num/den = k/20 only arises for den = 4, where the float is exact
Round1(num, den) ==
    LET q == (10 * num) \div den
        r == (10 * num) % den
    IN  IF 2 * r < den THEN q
        ELSE IF 2 * r > den THEN q + 1
        ELSE IF q % 2 = 0 THEN q ELSE q + 1

\* round(sum(vals) / len(vals), 1) if vals else 0
Mean1(vals) == IF vals = <<>> THEN 0 ELSE Round1(SumSeq(vals), Len(vals))

\* sorted(vals): insertion into an ascending list
RECURSIVE SortedInts(_)
InsertInt(x, s) ==
    LET k == Cardinality({j \in 1..Len(s) : s[j] <= x})
    IN  SubSeq(s, 1, k) \o <<x>> \o SubSeq(s, k + 1, Len(s))
SortedInts(s) == IF s = <<>> THEN <<>> ELSE InsertInt(Head(s), SortedInts(Tail(s)))

\* sorted(set of period keys)
RECURSIVE SortedPeriods(_)
SortedPeriods(S) ==
    IF S = {} THEN <<>>
    ELSE LET m == CHOOSE x \in S : \A y \in S : ~PeriodLess(y, x)
         IN  <<m>> \o SortedPeriods(S \ {m})

Range(s) == {s[k] : k \in DOMAIN s}

------------------------------------------------------------------------------
(* collect_comments *)

\* ev.get("created_at") or ev.get("submitted_at", "")
EventDate(ev) == IF ev.created_at # <<>> THEN ev.created_at ELSE ev.submitted_at

\* one iteration of the loop over events
collect_event(ev, out) ==
    IF ev.event \notin {"commented", "reviewed"} THEN out
    ELSE IF ev.user = None THEN out
    ELSE IF map_username(ev.user) \in _IGNORE_USERS THEN out
    ELSE IF Len(EventDate(ev)) < 3 THEN out
    ELSE IncrAll(out, period_keys(EventDate(ev)), map_username(ev.user))

\* one iteration of the loop over comments_array
collect_comment(c, out) ==
    IF c.user = None THEN out
    ELSE IF map_username(c.user) \in _IGNORE_USERS THEN out
    ELSE IF Len(c.created_at) < 3 THEN out
    ELSE IncrAll(out, period_keys(c.created_at), map_username(c.user))

RECURSIVE collect_events_from(_, _, _)
collect_events_from(events, k, out) ==
    IF k > Len(events) THEN out
    ELSE collect_events_from(events, k + 1, collect_event(events[k], out))

RECURSIVE collect_array_from(_, _, _)
collect_array_from(comments_array, k, out) ==
    IF k > Len(comments_array) THEN out
    ELSE collect_array_from(comments_array, k + 1, collect_comment(comments_array[k], out))

collect_comments(events, comments_array, out) ==
    collect_array_from(comments_array, 1, collect_events_from(events, 1, out))

------------------------------------------------------------------------------
(* main: the body of the loop over the PR files *)

\* a < b on two strings given by their components ("2021" < "2021-01-03")
RECURSIVE StrLess(_, _)
StrLess(a, b) ==
    IF b = <<>> THEN FALSE
    ELSE IF a = <<>> THEN TRUE
    ELSE IF Head(a) # Head(b) THEN Head(a) < Head(b)
    ELSE StrLess(Tail(a), Tail(b))

\* the scan for the terminal events: the index of the event kept in
\* merge_event and in close_event, 0 for None
RECURSIVE scan_terminal(_, _, _, _)
scan_terminal(events, k, m, c) ==
    IF k > Len(events) THEN [merge_event |-> m, close_event |-> c]
    ELSE IF events[k].event = "merged" THEN scan_terminal(events, k + 1, k, c)
    ELSE IF events[k].event = "closed" /\ c = 0 THEN scan_terminal(events, k + 1, m, k)
    ELSE scan_terminal(events, k + 1, m, c)

terminal_events(events) == scan_terminal(events, 1, 0, 0)

\* the label loop: label_counts_pr[tf][period][name] += 1 for every named label
RECURSIVE count_labels(_, _, _, _)
count_labels(labels, k, keys, out) ==
    IF k > Len(labels) THEN out
    ELSE count_labels(labels, k + 1, keys,
                      IF labels[k] # "" THEN IncrAll(out, keys, labels[k]) ELSE out)

_EVENT_CATEGORY(etype) ==
    CASE etype = "committed" -> "commits"
      [] etype = "commented" -> "comments"
      [] etype = "reviewed" -> "reviews"
      [] etype = "head_ref_force_pushed" -> "pushes"
      [] etype = "merged" -> "merged"
      [] etype = "closed" -> "closed"
      [] etype = "reopened" -> "reopened"
      [] OTHER -> "other"

\* the user of a timeline event, resolved: None when the event carries none
activity_user(ev) ==
    LET raw == IF ev.event = "committed" THEN ev.author
               ELSE IF ev.user # None THEN ev.user ELSE ev.actor
    IN  IF raw # None THEN map_username(raw) ELSE None

activity_date(ev) == IF ev.event = "committed" THEN ev.committer_date ELSE ev.created_at

ProfileInit ==
    [daily_activity |-> EmptyDict, participants |-> {}, first_response_ts |-> <<>>,
     comments_received |-> 0, author_updates |-> 0]

\* one iteration of the activity loop over the events
activity_event(ev, author, created_date, acc) ==
    LET etype    == ev.event
        ev_user  == activity_user(ev)
        date_str == activity_date(ev)
        valid    == Len(date_str) >= 3
        acc1     == IF valid
                    THEN [acc EXCEPT !.daily_activity = Incr2(@, date_str, _EVENT_CATEGORY(etype))]
                    ELSE acc
    IN  IF etype \in _SKIP_ACTIVITY_EVENTS THEN acc
        ELSE IF ev_user \in _IGNORE_USERS THEN acc
        ELSE IF ev_user # None /\ ev_user # author THEN
            [acc1 EXCEPT
                !.participants = @ \cup {ev_user},
                !.comments_received =
                    IF etype \in {"commented", "reviewed"} THEN @ + 1 ELSE @,
                !.first_response_ts =
                    IF valid /\ (@ = <<>> \/ StrLess(date_str, @)) THEN date_str ELSE @]
        ELSE IF ev_user = author THEN
            [acc1 EXCEPT
                !.author_updates =
                    IF etype \in {"committed", "head_ref_force_pushed"}
                       /\ StrLess(created_date, date_str)
                    THEN @ + 1 ELSE @]
        ELSE acc1

\* one iteration of the activity loop over the standalone comments
activity_comment(c, author, acc) ==
    LET c_user == IF c.user # None THEN map_username(c.user) ELSE None
        acc1   == IF Len(c.created_at) >= 3
                  THEN [acc EXCEPT !.daily_activity = Incr2(@, c.created_at, "review comments")]
                  ELSE acc
    IN  IF c_user \in _IGNORE_USERS THEN acc
        ELSE IF c_user # None /\ c_user # author THEN
            [acc1 EXCEPT !.participants = @ \cup {c_user},
                         !.comments_received = @ + 1]
        ELSE acc1

RECURSIVE activity_events_from(_, _, _, _, _)
activity_events_from(events, k, author, created_date, acc) ==
    IF k > Len(events) THEN acc
    ELSE activity_events_from(events, k + 1, author, created_date,
                              activity_event(events[k], author, created_date, acc))

RECURSIVE activity_comments_from(_, _, _, _)
activity_comments_from(comments, k, author, acc) ==
    IF k > Len(comments) THEN acc
    ELSE activity_comments_from(comments, k + 1, author,
                                activity_comment(comments[k], author, acc))

pr_profile(pr) ==
    activity_comments_from(pr.comments, 1, map_username(pr.user),
        activity_events_from(pr.events, 1, map_username(pr.user), pr.created_at, ProfileInit))

\* first_response_days in tenths, <<>> for None
first_response_days(created_date, first_response_ts) ==
    IF first_response_ts # <<>> THEN <<10 * DaysBetween(created_date, first_response_ts)>>
    ELSE <<>>

\* sorted(daily_activity.keys())
RECURSIVE SortedDays(_)
SortedDays(S) ==
    IF S = {} THEN <<>>
    ELSE LET m == CHOOSE x \in S : \A y \in S : ~StrLess(y, x)
         IN  <<m>> \o SortedDays(S \ {m})

RECURSIVE gap_from(_, _, _)
gap_from(active_days, j, longest) ==
    IF j > Len(active_days) THEN longest
    ELSE LET gap == DaysBetween(active_days[j - 1], active_days[j])
         IN  gap_from(active_days, j + 1, IF gap > longest THEN gap ELSE longest)

longest_gap(daily_activity) == gap_from(SortedDays(DOMAIN daily_activity), 2, 0)

\* the state of the review loops: review_age_events and reviews_received
\* one iteration over an event or a standalone comment; isEvent tells which loop
review_item(item, isEvent, author, created_date, acc) ==
    LET user == IF item.user # None THEN map_username(item.user) ELSE None
        ts   == item.created_at
    IN  IF isEvent /\ item.event \notin {"reviewed", "commented"} THEN acc
        ELSE IF user \in _IGNORE_USERS \/ user = author THEN acc
        ELSE IF Len(ts) >= 3 THEN
            [review_age_events |->
                 Append(acc.review_age_events,
                        [ts |-> ts, age_days |-> DaysBetween(created_date, ts)]),
             reviews_received |-> IncrAll(acc.reviews_received, period_keys(ts), author)]
        ELSE acc

RECURSIVE review_items_from(_, _, _, _, _, _)
review_items_from(items, k, isEvent, author, created_date, acc) ==
    IF k > Len(items) THEN acc
    ELSE review_items_from(items, k + 1, isEvent, author, created_date,
                           review_item(items[k], isEvent, author, created_date, acc))

pr_reviews(pr, acc) ==
    review_items_from(pr.comments, 1, FALSE, map_username(pr.user), pr.created_at,
        review_items_from(pr.events, 1, TRUE, map_username(pr.user), pr.created_at, acc))

\* the timestamp of the terminal event main() goes on to parse, <<>> if none
terminal_date(pr) ==
    LET t == terminal_events(pr.events)
    IN  IF t.merge_event # 0 THEN pr.events[t.merge_event].created_at
        ELSE IF t.close_event # 0 THEN pr.events[t.close_event].created_at
        ELSE <<>>

\* the loop body raises: period_keys(created_date), or period_keys of the
\* terminal event's date
pr_raises(pr) ==
    LET t == terminal_events(pr.events)
    IN  \/ Raises(pr.created_at)
        \/ (t.merge_event # 0 \/ t.close_event # 0) /\ Raises(terminal_date(pr))

------------------------------------------------------------------------------
(* main: the global facts *)

\* merged_prs.sort(key=lambda x: x[0]): stable, by the merge timestamp string
RECURSIVE sort_by_merge_date(_)
insert_by_merge_date(r, s) ==
    LET k == Cardinality({j \in 1..Len(s) : ~TsLess(r.merge_date, s[j].merge_date)})
    IN  SubSeq(s, 1, k) \o <<r>> \o SubSeq(s, k + 1, Len(s))
sort_by_merge_date(s) ==
    IF s = <<>> THEN <<>>
    ELSE insert_by_merge_date(s[Len(s)], sort_by_merge_date(SubSeq(s, 1, Len(s) - 1)))

sorted_merged_prs(s) == sort_by_merge_date(s)

\* author -> merge date of the first record of the author in the list
first_merge_of(sorted) ==
    [a \in {sorted[k].author : k \in DOMAIN sorted} |->
        sorted[CHOOSE k \in DOMAIN sorted :
                   /\ sorted[k].author = a
                   /\ \A j \in 1..(k - 1) : sorted[j].author # a].merge_date]

\* mutation: a later merge overwrites the entry (no "not in" test)
first_merge_overwritten(sorted) ==
    [a \in {sorted[k].author : k \in DOMAIN sorted} |->
        sorted[CHOOSE k \in DOMAIN sorted :
                   /\ sorted[k].author = a
                   /\ \A j \in (k + 1)..Len(sorted) : sorted[j].author # a].merge_date]

compute_author_first_merge(sorted) == first_merge_of(sorted)

------------------------------------------------------------------------------
(* main: the aggregation of one timeframe tf, over the state of main() *)

Ttm(r) == DaysBetween(r.created_date, r.merge_date)

\* the records of a list whose period key in tf is p, in list order
InPeriod(list, tf, p) == SelectSeq(list, LAMBDA r : r.keys[tf] = p)

PeriodsOf(list, tf) == {list[k].keys[tf] : k \in DOMAIN list}

MapSeq(s, F(_)) == [k \in 1..Len(s) |-> F(s[k])]

merged_authors_by_period(tf) ==
    [p \in PeriodsOf(merged_prs, tf) |-> {r.author : r \in Range(InPeriod(merged_prs, tf, p))}]

prs_by_author_period(tf) ==
    [p \in PeriodsOf(merged_prs, tf) |->
        [a \in {r.author : r \in Range(InPeriod(merged_prs, tf, p))} |->
            Len(SelectSeq(InPeriod(merged_prs, tf, p), LAMBDA r : r.author = a))]]

ttm_by_period(tf) ==
    [p \in PeriodsOf(merged_prs, tf) |-> MapSeq(InPeriod(merged_prs, tf, p), Ttm)]

\* size bucket: S <= 50 lines, M <= 500 lines, L > 500 lines
\* mutation: the bucket of the additions alone, with the limits swapped
size_bucket_swapped(r) ==
    IF r.additions <= 50 THEN "L"
    ELSE IF r.additions <= 500 THEN "M"
    ELSE "S"

size_bucket(r) ==
    IF r.additions + r.deletions <= 50 THEN "S"
    ELSE IF r.additions + r.deletions <= 500 THEN "M"
    ELSE "L"

ttm_by_size_period(tf) ==
    [p \in PeriodsOf(merged_prs, tf) |->
        [b \in {"S", "M", "L"} |->
            MapSeq(SelectSeq(InPeriod(merged_prs, tf, p), LAMBDA r : size_bucket(r) = b), Ttm)]]

author_period_stats(tf) ==
    [a \in {merged_prs[k].author : k \in DOMAIN merged_prs} |->
        [p \in PeriodsOf(SelectSeq(merged_prs, LAMBDA r : r.author = a), tf) |->
            LET mine == SelectSeq(InPeriod(merged_prs, tf, p), LAMBDA r : r.author = a)
            IN  [ttm       |-> MapSeq(mine, Ttm),
                 additions |-> MapSeq(mine, LAMBDA r : r.additions),
                 deletions |-> MapSeq(mine, LAMBDA r : r.deletions),
                 commits   |-> MapSeq(mine, LAMBDA r : r.commits)]]]

closed_by_author_period(tf) ==
    [p \in PeriodsOf(closed_prs, tf) |->
        [a \in {r.author : r \in Range(InPeriod(closed_prs, tf, p))} |->
            Len(SelectSeq(InPeriod(closed_prs, tf, p), LAMBDA r : r.author = a))]]

all_authors_by_period(tf) ==
    [p \in PeriodsOf(all_prs, tf) |-> {r.author : r \in Range(InPeriod(all_prs, tf, p))}]

\* mutation: the merging authors are not taken out
no_merge_not_subtracted(tf) ==
    [p \in DOMAIN all_authors_by_period(tf) \cup DOMAIN merged_authors_by_period(tf) |->
        Get(all_authors_by_period(tf), p, {})]

no_merge_by_period(tf) ==
    [p \in DOMAIN all_authors_by_period(tf) \cup DOMAIN merged_authors_by_period(tf) |->
        Get(all_authors_by_period(tf), p, {}) \ Get(merged_authors_by_period(tf), p, {})]

\* mutation: the first aggregation to run consumes author_first_merge, the
\* later ones find it empty
first_time_consumed(tf) ==
    IF DOMAIN timeframes # {} THEN EmptyDict
    ELSE [p \in {period_keys(author_first_merge[a])[tf] : a \in DOMAIN author_first_merge} |->
             {a \in DOMAIN author_first_merge : period_keys(author_first_merge[a])[tf] = p}]

first_time_by_period(tf) ==
    [p \in {period_keys(author_first_merge[a])[tf] : a \in DOMAIN author_first_merge} |->
        {a \in DOMAIN author_first_merge : period_keys(author_first_merge[a])[tf] = p}]

prolific_by_period(tf) ==
    [p \in DOMAIN comment_counts[tf] |->
        [u \in {v \in DOMAIN comment_counts[tf][p] :
                    comment_counts[tf][p][v] > COMMENT_THRESHOLD} |->
            comment_counts[tf][p][u]]]

\* the period sets main() unites into all_periods
period_universe(tf) ==
    DOMAIN merged_authors_by_period(tf) \cup DOMAIN all_authors_by_period(tf)
    \cup DOMAIN first_time_by_period(tf) \cup DOMAIN prolific_by_period(tf)

all_periods(tf) == SortedPeriods(period_universe(tf))

ActorKeys(k) == period_keys(merge_actors[k].merge_date)

merge_access_by_period(tf) ==
    [p \in {ActorKeys(k)[tf] : k \in DOMAIN merge_actors} |->
        {merge_actors[k].merger : k \in {j \in DOMAIN merge_actors : ActorKeys(j)[tf] = p}}]

merges_by_actor_period(tf) ==
    [p \in {ActorKeys(k)[tf] : k \in DOMAIN merge_actors} |->
        [m \in {merge_actors[k].merger : k \in {j \in DOMAIN merge_actors : ActorKeys(j)[tf] = p}} |->
            Cardinality({k \in DOMAIN merge_actors :
                            ActorKeys(k)[tf] = p /\ merge_actors[k].merger = m})]]

\* the keys of a dict filled in the order of seq, first insertion kept
RECURSIVE insertion_order(_)
insertion_order(seq) ==
    IF seq = <<>> THEN <<>>
    ELSE LET before == insertion_order(SubSeq(seq, 1, Len(seq) - 1))
         IN  IF seq[Len(seq)] \in Range(before) THEN before
             ELSE Append(before, seq[Len(seq)])

\* for p in all_periods: for author, count in prs_by_author_period.get(p, {}).items():
\* the authors in the order global_author_counts receives them
RECURSIVE global_author_order(_, _)
global_author_order(tf, periods) ==
    IF periods = <<>> THEN <<>>
    ELSE global_author_order(tf, SubSeq(periods, 1, Len(periods) - 1))
         \o MapSeq(InPeriod(merged_prs, tf, periods[Len(periods)]), LAMBDA r : r.author)

RECURSIVE sum_counts(_, _, _)
sum_counts(tf, periods, a) ==
    IF periods = <<>> THEN 0
    ELSE Get(Get(prs_by_author_period(tf), Head(periods), EmptyDict), a, 0)
         + sum_counts(tf, Tail(periods), a)

global_author_counts(tf) ==
    [a \in Range(global_author_order(tf, all_periods(tf))) |->
        sum_counts(tf, all_periods(tf), a)]

\* sorted(items, key=lambda x: -x[1]): stable, descending by count
RECURSIVE sort_by_count_desc(_, _)
sort_by_count_desc(order, counts) ==
    IF order = <<>> THEN <<>>
    ELSE LET before == sort_by_count_desc(SubSeq(order, 1, Len(order) - 1), counts)
             x      == order[Len(order)]
             k      == Cardinality({j \in 1..Len(before) : counts[before[j]] >= counts[x]})
         IN  SubSeq(before, 1, k) \o <<x>> \o SubSeq(before, k + 1, Len(before))

TopN == 5

top5_authors(tf) ==
    LET ranked == sort_by_count_desc(
                      insertion_order(global_author_order(tf, all_periods(tf))),
                      global_author_counts(tf))
    IN  {ranked[k] : k \in 1..(IF Len(ranked) < TopN THEN Len(ranked) ELSE TopN)}

_AGE_BUCKETS ==
    << <<0, 7, "<1w">>, <<7, 30, "1-4w">>, <<30, 90, "1-3m">>, <<90, 180, "3-6m">>,
       <<180, 365, "6-12m">>, <<365, 730, "1-2y">>, <<730, 1000000000, "2y+">> >>

_AGE_BUCKET_LABELS == {_AGE_BUCKETS[k][3] : k \in DOMAIN _AGE_BUCKETS}

\* the label of the first bucket with lo <= age_days < hi, None when no bucket matches
age_bucket(age_days) ==
    LET hits == {k \in DOMAIN _AGE_BUCKETS :
                     _AGE_BUCKETS[k][1] <= age_days /\ age_days < _AGE_BUCKETS[k][2]}
    IN  IF hits = {} THEN None
        ELSE _AGE_BUCKETS[CHOOSE k \in hits : \A j \in hits : k <= j][3]

\* review_by_pr_age.get(p, {}).get(label, 0)
review_by_pr_age(tf, p, label) ==
    Cardinality({k \in DOMAIN review_age_events :
                    /\ period_keys(review_age_events[k].ts)[tf] = p
                    /\ age_bucket(review_age_events[k].age_days) = label})

------------------------------------------------------------------------------
(* _build_contributor_stats *)

\* mutation: the authors of closed PRs are not collected
contributor_authors_merged_only(aps, cbap) == DOMAIN aps

\* the authors the result has an entry for
contributor_authors(aps, cbap) ==
    DOMAIN aps \cup UNION {DOMAIN cbap[p] : p \in DOMAIN cbap}

\* the periods collected for one author
contributor_periods(author, aps, cbap, cc, rr) ==
    DOMAIN Get(aps, author, EmptyDict)
    \cup {p \in DOMAIN cbap : author \in DOMAIN cbap[p]}
    \cup {p \in DOMAIN cc : author \in DOMAIN cc[p]}
    \cup {p \in DOMAIN rr : author \in DOMAIN rr[p]}

contributor_entry(author, p, aps, cbap, cc, rr) ==
    LET merged_data == Get(aps, author, EmptyDict)
        closed   == Get(Get(cbap, p, EmptyDict), author, 0)
        comments == Get(Get(cc, p, EmptyDict), author, 0)
        received == Get(Get(rr, p, EmptyDict), author, 0)
    IN  IF p \in DOMAIN merged_data THEN
            [count |-> Len(merged_data[p].ttm),
             closed_count |-> closed,
             comments |-> comments,
             reviews_received |-> received,
             avg_ttm |-> Mean1(merged_data[p].ttm),
             avg_additions |-> Mean1(merged_data[p].additions),
             avg_deletions |-> Mean1(merged_data[p].deletions),
             avg_commits |-> Mean1(merged_data[p].commits)]
        ELSE
            [count |-> 0,
             closed_count |-> closed,
             comments |-> comments,
             reviews_received |-> received,
             avg_ttm |-> 0,
             avg_additions |-> 0,
             avg_deletions |-> 0,
             avg_commits |-> 0]

_build_contributor_stats(aps, cbap, cc, rr) ==
    [author \in contributor_authors(aps, cbap) |->
        [p \in contributor_periods(author, aps, cbap, cc, rr) |->
            contributor_entry(author, p, aps, cbap, cc, rr)]]

------------------------------------------------------------------------------
(* main: the bundle of one timeframe *)

\* mutation: the lower of the two middle elements on an even count
median_lower(vals) == 10 * SortedInts(vals)[((Len(vals) - 1) \div 2) + 1]

\* sorted(vals)[len(vals) // 2], rounded, in tenths
median_of(vals) == 10 * SortedInts(vals)[(Len(vals) \div 2) + 1]

median_time_to_merge(vals) == IF vals # <<>> THEN median_of(vals) ELSE 0

TtmExcluding(tf, p, excluded) ==
    MapSeq(SelectSeq(InPeriod(merged_prs, tf, p), LAMBDA r : r.author \notin excluded), Ttm)

timeframe_bundle(tf) ==
    LET periods   == all_periods(tf)
        P         == Range(periods)
        merged    == merged_authors_by_period(tf)
        no_merge  == no_merge_by_period(tf)
        first     == first_time_by_period(tf)
        prolific  == prolific_by_period(tf)
        access    == merge_access_by_period(tf)
        by_actor  == merges_by_actor_period(tf)
        ttm       == ttm_by_period(tf)
        by_author == prs_by_author_period(tf)
        by_size   == ttm_by_size_period(tf)
        top5      == top5_authors(tf)
    IN  [periods |-> periods,
         unique_author_counts |-> [p \in P |-> Cardinality(Get(merged, p, {}))],
         no_merge_author_counts |-> [p \in P |-> Cardinality(Get(no_merge, p, {}))],
         first_time_author_counts |-> [p \in P |-> Cardinality(Get(first, p, {}))],
         prolific_commenter_counts |->
             [p \in P |-> Cardinality(DOMAIN Get(prolific, p, EmptyDict))],
         merge_access_counts |-> [p \in P |-> Cardinality(Get(access, p, {}))],
         merge_access_users |-> [p \in P |-> Get(access, p, {})],
         unique_authors |-> [p \in P |-> Get(merged, p, {})],
         no_merge_authors |-> [p \in P |-> Get(no_merge, p, {})],
         first_time_authors |-> [p \in P |-> Get(first, p, {})],
         prolific_commenter_details |-> [p \in P |-> Get(prolific, p, EmptyDict)],
         merges_by_actor |-> [p \in P |-> Get(by_actor, p, EmptyDict)],
         avg_time_to_merge |-> [p \in P |-> Mean1(Get(ttm, p, <<>>))],
         median_time_to_merge |-> [p \in P |-> median_time_to_merge(Get(ttm, p, <<>>))],
         prs_by_author |-> [p \in P |-> Get(by_author, p, EmptyDict)],
         avg_time_to_merge_excl_top5 |-> [p \in P |-> Mean1(TtmExcluding(tf, p, top5))],
         avg_time_to_merge_excl_maintainers |->
             [p \in P |-> Mean1(TtmExcluding(tf, p, all_maintainers))],
         ttm_by_size |->
             [b \in {"S", "M", "L"} |->
                 [p \in P |-> IF p \in DOMAIN by_size THEN Mean1(by_size[p][b]) ELSE 0]],
         contributor_stats |->
             _build_contributor_stats(author_period_stats(tf), closed_by_author_period(tf),
                                      comment_counts[tf], reviews_received[tf]),
         review_by_pr_age |->
             [p \in P |-> [label \in _AGE_BUCKET_LABELS |-> review_by_pr_age(tf, p, label)]],
         label_counts_pr |-> [p \in P |-> Get(label_counts_pr[tf], p, EmptyDict)],
         label_counts_issue |-> [p \in P |-> Get(label_counts_issue[tf], p, EmptyDict)]]

------------------------------------------------------------------------------
(* main: the steps *)

EmptyCounts == [tf \in Timeframes |-> EmptyDict]

\* the record main() appends to merged_prs for a PR whose merge_event is events[m]
merged_record(pr, m) ==
    [merge_date   |-> pr.events[m].created_at,
     created_date |-> pr.created_at,
     author       |-> map_username(pr.user),
     keys         |-> period_keys(pr.events[m].created_at),
     additions    |-> pr.additions,
     deletions    |-> pr.deletions,
     commits      |-> pr.commits]

closed_record(pr, c) ==
    [close_date |-> pr.events[c].created_at,
     author     |-> map_username(pr.user),
     keys       |-> period_keys(pr.events[c].created_at)]

opened_record(pr) ==
    [created_date |-> pr.created_at,
     author       |-> map_username(pr.user),
     keys         |-> period_keys(pr.created_at)]

\* the entry of pr_activity (title and closed_at, copied from the input, are left out)
activity_record(pr) ==
    LET prof == pr_profile(pr)
    IN  [author |-> map_username(pr.user),
         created |-> pr.created_at,
         merged |-> terminal_events(pr.events).merge_event # 0,
         activity |-> prof.daily_activity,
         participants |-> Cardinality(prof.participants),
         first_response_days |-> first_response_days(pr.created_at, prof.first_response_ts),
         comments_received |-> prof.comments_received,
         author_updates |-> prof.author_updates,
         longest_gap_days |-> longest_gap(prof.daily_activity)]

MapVars == <<handle, login, seen, links>>

\* one iteration of the loop over pr_files; an exception ends the run
ReadPR ==
    /\ pc = "pulls"
    /\ idx <= Len(pulls)
    /\ LET pr == pulls[idx]
           t  == terminal_events(pr.events)
           rv == pr_reviews(pr, [review_age_events |-> review_age_events,
                                 reviews_received  |-> reviews_received])
       IN  IF pr_raises(pr)
           THEN /\ pc' = "aborted"
                /\ UNCHANGED <<idx, merged_prs, closed_prs, all_prs, merge_actors,
                               comment_counts, label_counts_pr, review_age_events,
                               reviews_received, pr_activity>>
           ELSE /\ pc' = pc
                /\ idx' = idx + 1
                /\ comment_counts' = collect_comments(pr.events, pr.comments, comment_counts)
                /\ all_prs' = Append(all_prs, opened_record(pr))
                /\ label_counts_pr' =
                       count_labels(pr.labels, 1, period_keys(pr.created_at), label_counts_pr)
                /\ merged_prs' = IF t.merge_event # 0
                                 THEN Append(merged_prs, merged_record(pr, t.merge_event))
                                 ELSE merged_prs
                /\ merge_actors' =
                       IF t.merge_event # 0 /\ pr.events[t.merge_event].actor # None
                       THEN Append(merge_actors,
                                   [merge_date |-> pr.events[t.merge_event].created_at,
                                    merger |-> map_username(pr.events[t.merge_event].actor)])
                       ELSE merge_actors
                /\ closed_prs' = IF t.merge_event = 0 /\ t.close_event # 0
                                 THEN Append(closed_prs, closed_record(pr, t.close_event))
                                 ELSE closed_prs
                /\ review_age_events' = rv.review_age_events
                /\ reviews_received' = rv.reviews_received
                /\ pr_activity' = (idx :> activity_record(pr)) @@ pr_activity
    /\ UNCHANGED <<USERNAME_MAP, pulls, issues, label_counts_issue, all_maintainers,
                   author_first_merge, timeframes, MapVars>>

\* the end of the loop over the PRs: the issue files are listed
ListIssues ==
    /\ pc = "pulls"
    /\ idx > Len(pulls)
    /\ pc' = "issues"
    /\ idx' = 1
    /\ UNCHANGED <<USERNAME_MAP, pulls, issues, merged_prs, closed_prs, all_prs,
                   merge_actors, comment_counts, label_counts_pr, label_counts_issue,
                   review_age_events, reviews_received, pr_activity, all_maintainers,
                   author_first_merge, timeframes, MapVars>>

\* one iteration of the loop over issue_files
ReadIssue ==
    /\ pc = "issues"
    /\ idx <= Len(issues)
    /\ LET issue == issues[idx]
       IN  /\ label_counts_issue' =
                  IF Len(issue.created_at) >= 3
                  THEN count_labels(issue.labels, 1, period_keys(issue.created_at),
                                    label_counts_issue)
                  ELSE label_counts_issue
           /\ comment_counts' = collect_comments(issue.events, <<>>, comment_counts)
    /\ idx' = idx + 1
    /\ UNCHANGED <<USERNAME_MAP, pulls, issues, pc, merged_prs, closed_prs, all_prs,
                   merge_actors, label_counts_pr, review_age_events, reviews_received,
                   pr_activity, all_maintainers, author_first_merge, timeframes, MapVars>>

\* the global facts: the sort of merged_prs, all_maintainers, author_first_merge
GlobalFacts ==
    /\ pc = "issues"
    /\ idx > Len(issues)
    /\ merged_prs' = sorted_merged_prs(merged_prs)
    /\ all_maintainers' = {merge_actors[k].merger : k \in DOMAIN merge_actors}
    /\ author_first_merge' = compute_author_first_merge(sorted_merged_prs(merged_prs))
    /\ pc' = "timeframes"
    /\ idx' = 1
    /\ UNCHANGED <<USERNAME_MAP, pulls, issues, closed_prs, all_prs, merge_actors,
                   comment_counts, label_counts_pr, label_counts_issue, review_age_events,
                   reviews_received, pr_activity, timeframes, MapVars>>

\* one iteration of the loop over ("year", "quarter", "month")
Aggregate ==
    /\ pc = "timeframes"
    /\ idx <= Len(TimeframeOrder)
    /\ timeframes' = (TimeframeOrder[idx] :> timeframe_bundle(TimeframeOrder[idx])) @@ timeframes
    /\ idx' = idx + 1
    /\ UNCHANGED <<USERNAME_MAP, pulls, issues, pc, merged_prs, closed_prs, all_prs,
                   merge_actors, comment_counts, label_counts_pr, label_counts_issue,
                   review_age_events, reviews_received, pr_activity, all_maintainers,
                   author_first_merge, MapVars>>

\* the report is written
WriteOutput ==
    /\ pc = "timeframes"
    /\ idx > Len(TimeframeOrder)
    /\ pc' = "done"
    /\ UNCHANGED <<USERNAME_MAP, pulls, issues, idx, merged_prs, closed_prs, all_prs,
                   merge_actors, comment_counts, label_counts_pr, label_counts_issue,
                   review_age_events, reviews_received, pr_activity, all_maintainers,
                   author_first_merge, timeframes, MapVars>>

Next == ReadPR \/ ListIssues \/ ReadIssue \/ GlobalFacts \/ Aggregate \/ WriteOutput

\* the state main() starts from, for a rename table and a backup
InitMain(tables, prFiles, issueFiles) ==
    /\ USERNAME_MAP \in tables
    /\ pulls \in prFiles
    /\ issues \in issueFiles
    /\ pc = "pulls"
    /\ idx = 1
    /\ merged_prs = <<>> /\ closed_prs = <<>> /\ all_prs = <<>> /\ merge_actors = <<>>
    /\ comment_counts = EmptyCounts
    /\ label_counts_pr = EmptyCounts
    /\ label_counts_issue = EmptyCounts
    /\ review_age_events = <<>>
    /\ reviews_received = EmptyCounts
    /\ pr_activity = EmptyDict
    /\ all_maintainers = {}
    /\ author_first_merge = EmptyDict
    /\ timeframes = EmptyDict
    /\ handle = None /\ login = None /\ seen = {} /\ links = 0

------------------------------------------------------------------------------
(* the inputs *)

MaxFiles == 2

MaxEvents == 2

\* a timeline event of kind etype
Event(etype, user, actor, ts) ==
    [event |-> etype, user |-> user, actor |-> actor, author |-> None,
     created_at |-> ts, submitted_at |-> <<>>, committer_date |-> <<>>]

PullRequest(user, created, adds, labels, events, comments) ==
    [user |-> user, created_at |-> created, additions |-> adds, deletions |-> 0,
     commits |-> 1, labels |-> labels, events |-> events, comments |-> comments]

Issue(created, labels, events) ==
    [created_at |-> created, labels |-> labels, events |-> events]

\* the sequences of length at most n over S
SeqsUpTo(S, n) == UNION {[1..k -> S] : k \in 0..n}

NoRenames == EmptyDict

BobRenamed == "bob" :> "robert"

Tables == {NoRenames, BobRenamed}

\* three days: the first in another year, quarter and month than the other
\* two, which share their quarter and differ in their month
Dates == {<<2020, 12, 30>>, <<2021, 1, 3>>, <<2021, 2, 10>>}

FirstDate == <<2020, 12, 30>>

From(c) == {d \in Dates : ~TsLess(d, c)}

\* alice's PRs: still open, merged or closed on a day from their creation on,
\* or opened on the first day and commented on by carol
AlicePRs ==
    UNION {{PullRequest("alice", c, 10, <<>>, tl, <<>>) :
                tl \in {<<>>}
                       \cup {<<Event("merged", None, "carol", d)>> : d \in From(c)}
                       \cup {<<Event("closed", None, "carol", d)>> : d \in From(c)}} :
           c \in Dates}
    \cup {PullRequest("alice", FirstDate, 10, <<>>, <<Event("commented", "carol", None, d)>>, <<>>) :
              d \in Dates}

\* bob's PRs: still open or merged, or opened on the first day and commented on by alice
BobPRs ==
    UNION {{PullRequest("bob", c, 10, <<>>, tl, <<>>) :
                tl \in {<<>>} \cup {<<Event("merged", None, "carol", d)>> : d \in From(c)}} :
           c \in Dates}
    \cup {PullRequest("bob", FirstDate, 10, <<>>, <<Event("commented", "alice", None, d)>>, <<>>) :
              d \in Dates}

AggPRs == AlicePRs \cup BobPRs

AggIssues == {Issue(d, <<"Bug">>, <<>>) : d \in Dates}

\* a backup of at most MaxFiles files, PRs and labelled issues
Init ==
    /\ InitMain({NoRenames}, SeqsUpTo(AggPRs, MaxFiles), SeqsUpTo(AggIssues, MaxFiles))
    /\ Len(pulls) + Len(issues) <= MaxFiles

Spec == Init /\ [][Next]_vars

\* the timestamps of the events of SpecRecord: two days, and a string cut
\* after the year
EventTimes == {<<2021, 1, 3>>, <<2021, 2, 10>>, <<2021>>}

RecordEvents ==
    {Event("merged", None, a, t) : a \in {"bob", None}, t \in EventTimes}
    \cup {Event("closed", None, "bob", t) : t \in EventTimes}
    \cup {Event("commented", u, None, t) : u \in {"bob", None}, t \in {<<2021, 2, 10>>, <<2021>>}}
    \cup {[Event("reviewed", "bob", None, <<>>) EXCEPT !.submitted_at = <<2021, 2, 10>>]}
    \cup {Event("subscribed", "bob", None, <<2021, 2, 10>>)}

RecordComments ==
    {[user |-> u, created_at |-> t] : u \in {"bob", None}, t \in {<<2021, 2, 10>>, <<2021>>}}

\* one PR: its author, its creation timestamp (present or missing), and either
\* a timeline of at most MaxEvents events or as many standalone comments
RecordPRs ==
    {PullRequest(u, c, 10, <<"Bug", "">>, tl, <<>>) :
         u \in {"alice", "bob"}, c \in {<<2021, 1, 3>>, <<>>},
         tl \in SeqsUpTo(RecordEvents, MaxEvents)}
    \cup {PullRequest(u, <<2021, 1, 3>>, 10, <<>>, <<>>, cs) :
              u \in {"alice", "bob"}, cs \in SeqsUpTo(RecordComments, MaxEvents)}

RecordIssues ==
    {Issue(c, <<"Bug", "">>, tl) :
         c \in {<<2021, 1, 3>>, <<2021>>, <<>>},
         tl \in SeqsUpTo({Event("commented", u, None, t) :
                              u \in {"bob", None}, t \in {<<2021, 2, 10>>, <<2021>>}}, 1)}

\* a backup of one file, a PR or an issue, with or without the rename of bob
InitRecord ==
    /\ InitMain(Tables, SeqsUpTo(RecordPRs, 1), SeqsUpTo(RecordIssues, 1))
    /\ Len(pulls) + Len(issues) = 1

SpecRecord == InitRecord /\ [][Next]_vars

\* the three PRs of the end-to-end example
ThreePRs ==
    {PullRequest("alice", <<2021, 1, 1>>, 10, <<>>,
                 <<Event("merged", None, "bob", <<2021, 1, 3>>)>>, <<>>),
     PullRequest("alice", <<2021, 1, 5>>, 10, <<>>,
                 <<Event("closed", None, "bob", <<2021, 1, 6>>)>>, <<>>),
     PullRequest("carol", <<2021, 2, 1>>, 600, <<>>,
                 <<Event("merged", None, "bob", <<2021, 2, 10>>)>>, <<>>)}

\* the three PRs in any file order, at most one labelled issue beside them
InitCorpus ==
    /\ InitMain(Tables,
                {s \in [1..Cardinality(ThreePRs) -> ThreePRs] : Range(s) = ThreePRs},
                SeqsUpTo(AggIssues, 1))

SpecCorpus == InitCorpus /\ [][Next]_vars

------------------------------------------------------------------------------
(* map_username, one call stepped through its loop *)

MaxRenames == 3

RenameHandles == {"alice", "bob", "carol", "robert"}

\* every rename table of at most MaxRenames entries, chains and cycles included
RenameTables ==
    UNION {[D -> RenameHandles] :
               D \in {E \in SUBSET RenameHandles : Cardinality(E) <= MaxRenames}}

MainVars ==
    <<pulls, issues, idx, merged_prs, closed_prs, all_prs, merge_actors, comment_counts,
      label_counts_pr, label_counts_issue, review_age_events, reviews_received,
      pr_activity, all_maintainers, author_first_merge, timeframes>>

\* one iteration of the while loop
MapFollow ==
    /\ pc = "map_username"
    /\ map_cond(login, seen)
    /\ seen' = seen \cup {login}
    /\ login' = USERNAME_MAP[login]
    /\ links' = links + 1
    /\ UNCHANGED <<USERNAME_MAP, pc, handle, MainVars>>

\* the loop condition fails: return login
MapReturn ==
    /\ pc = "map_username"
    /\ ~map_cond(login, seen)
    /\ pc' = "returned"
    /\ UNCHANGED <<USERNAME_MAP, handle, login, seen, links, MainVars>>

NextRename == MapFollow \/ MapReturn

InitRename ==
    /\ USERNAME_MAP \in RenameTables
    /\ handle \in RenameHandles
    /\ login = handle
    /\ seen = {}
    /\ links = 0
    /\ pc = "map_username"
    /\ pulls = <<>> /\ issues = <<>> /\ idx = 1
    /\ merged_prs = <<>> /\ closed_prs = <<>> /\ all_prs = <<>> /\ merge_actors = <<>>
    /\ comment_counts = EmptyCounts
    /\ label_counts_pr = EmptyCounts
    /\ label_counts_issue = EmptyCounts
    /\ review_age_events = <<>>
    /\ reviews_received = EmptyCounts
    /\ pr_activity = EmptyDict
    /\ all_maintainers = {}
    /\ author_first_merge = EmptyDict
    /\ timeframes = EmptyDict

SpecRename == InitRename /\ [][NextRename]_vars

------------------------------------------------------------------------------
(* one PR of alice and what others did on it, before and after its creation *)

EngageCreated == <<2021, 1, 3>>

\* two days before the creation (same month), the day of the creation, and later
EngageDays == {<<2021, 1, 1>>, <<2021, 1, 3>>, <<2021, 2, 10>>}

\* a committed event: its user is ev["author"], its date ev["committer"]["date"]
Commit(author, date) ==
    [Event("committed", None, None, <<>>) EXCEPT !.author = author, !.committer_date = date]

EngageEvents ==
    {Event("commented", u, None, d) : u \in {"carol", None}, d \in EngageDays}
    \cup {Commit("carol", <<2021, 1, 1>>), Commit("alice", <<2021, 2, 10>>)}
    \cup {Event("reviewed", "DrahtBot", None, <<2021, 1, 1>>)}
    \cup {Event("merged", None, "carol", <<2021, 2, 10>>)}

EngageComments == {[user |-> u, created_at |-> <<2021, 2, 10>>] : u \in {"carol", None}}

EngagePRs ==
    {PullRequest("alice", EngageCreated, 10, <<>>, tl, cs) :
         tl \in SeqsUpTo(EngageEvents, MaxEvents), cs \in SeqsUpTo(EngageComments, 1)}

\* a backup of the one PR, with or without a labelled issue beside it
InitEngage ==
    InitMain({NoRenames}, [1..1 -> EngagePRs],
             SeqsUpTo({Issue(EngageCreated, <<"Bug">>, <<>>)}, 1))

SpecEngage == InitEngage /\ [][Next]_vars

------------------------------------------------------------------------------
(* the three aggregations handed to workers: any timeframe without a bundle *)
(* may be aggregated next                                                   *)

\* the body of the loop over the timeframes, for a timeframe not yet aggregated
AggregateAnyOrder ==
    /\ pc = "timeframes"
    /\ \E tf \in Timeframes \ DOMAIN timeframes :
           timeframes' = (tf :> timeframe_bundle(tf)) @@ timeframes
    /\ idx' = idx + 1
    /\ UNCHANGED <<USERNAME_MAP, pulls, issues, pc, merged_prs, closed_prs, all_prs,
                   merge_actors, comment_counts, label_counts_pr, label_counts_issue,
                   review_age_events, reviews_received, pr_activity, all_maintainers,
                   author_first_merge, MapVars>>

NextAnyOrder ==
    ReadPR \/ ListIssues \/ ReadIssue \/ GlobalFacts \/ AggregateAnyOrder \/ WriteOutput

\* a backup of at most MaxFiles files: PRs opened on the first day, and
\* labelled issues
InitAnyOrder ==
    /\ InitMain({NoRenames},
                SeqsUpTo({pr \in AggPRs : pr.created_at = FirstDate}, MaxFiles),
                SeqsUpTo(AggIssues, MaxFiles))
    /\ Len(pulls) + Len(issues) <= MaxFiles

SpecAnyOrder == InitAnyOrder /\ [][NextAnyOrder]_vars

------------------------------------------------------------------------------
(* more merging authors than the top-N cut keeps *)

\* the authors, in the order of their files
RollupAuthors == <<"alice", "bob", "carol", "dave", "erin", "frank">>

MergedOn(user, d) ==
    PullRequest(user, FirstDate, 10, <<>>, <<Event("merged", None, "gina", d)>>, <<>>)

\* one PR per author, each merged on one of the days, then possibly one more
\* PR of the first or of the last author, merged on the last day
RollupCorpora ==
    {[k \in DOMAIN RollupAuthors |-> MergedOn(RollupAuthors[k], ds[k])] \o extra :
         ds \in [DOMAIN RollupAuthors -> Dates],
         extra \in {<<>>, <<MergedOn("alice", <<2021, 2, 10>>)>>,
                    <<MergedOn("frank", <<2021, 2, 10>>)>>}}

InitRollup ==
    InitMain({NoRenames}, RollupCorpora, [1..1 -> {Issue(FirstDate, <<"Bug">>, <<>>)}])

SpecRollup == InitRollup /\ [][Next]_vars

------------------------------------------------------------------------------
(* The properties.  They are stated over the input files (pulls, issues)    *)
(* and the report (timeframes, pr_activity).                                *)

Files == DOMAIN pulls

FileAuthor(k) == map_username(pulls[k].user)

EventsOfKind(k, kind) == {j \in DOMAIN pulls[k].events : pulls[k].events[j].event = kind}

HasMerged(k) == EventsOfKind(k, "merged") # {}

HasClosedOnly(k) == ~HasMerged(k) /\ EventsOfKind(k, "closed") # {}

FirstOf(S) == CHOOSE j \in S : \A i \in S : j <= i

LastOf(S) == CHOOSE j \in S : \A i \in S : i <= j

\* the merge date main() records for file k: that of its last merged event
MergeDate(k) == pulls[k].events[LastOf(EventsOfKind(k, "merged"))].created_at

CloseDate(k) == pulls[k].events[FirstOf(EventsOfKind(k, "closed"))].created_at

PeriodKey(tf, ts) == period_keys(ts)[tf]

MergedFiles(tf, p) == {k \in Files : HasMerged(k) /\ PeriodKey(tf, MergeDate(k)) = p}

ClosedFiles(tf, p) == {k \in Files : HasClosedOnly(k) /\ PeriodKey(tf, CloseDate(k)) = p}

OpenedFiles(tf, p) == {k \in Files : PeriodKey(tf, pulls[k].created_at) = p}

FileTtm(k) == DaysBetween(pulls[k].created_at, MergeDate(k))

\* v is the element at 0-based index i of the ascending list of the times of S
AtSortedIndex(v, S, i) ==
    /\ Cardinality({k \in S : FileTtm(k) < v}) <= i
    /\ i < Cardinality({k \in S : FileTtm(k) <= v})

\* the periods of tf the bundle lists
Listed(tf) == Range(timeframes[tf].periods)

\* C1 (as amended): for every period with at least one merged PR,
\* median_time_to_merge is the element at index len // 2 of the sorted
\* time-to-merge list; on an even-length list that is the upper of the two
\* middle elements.
C1_MedianAtIntegerDivideIndex ==
    \A tf \in DOMAIN timeframes : \A p \in Listed(tf) :
        MergedFiles(tf, p) # {} =>
            \E k \in MergedFiles(tf, p) :
                /\ timeframes[tf].median_time_to_merge[p] = 10 * FileTtm(k)
                /\ AtSortedIndex(FileTtm(k), MergedFiles(tf, p),
                                 Cardinality(MergedFiles(tf, p)) \div 2)

\* C1 (as claimed): the median is the element at index len // 2 and, on an
\* even-length list, the lower of the two middle elements.
C1_MedianLowerMiddleOnEven ==
    \A tf \in DOMAIN timeframes : \A p \in Listed(tf) :
        MergedFiles(tf, p) # {} =>
            \E k \in MergedFiles(tf, p) :
                LET n == Cardinality(MergedFiles(tf, p))
                IN  /\ timeframes[tf].median_time_to_merge[p] = 10 * FileTtm(k)
                    /\ AtSortedIndex(FileTtm(k), MergedFiles(tf, p), n \div 2)
                    /\ n % 2 = 0 => AtSortedIndex(FileTtm(k), MergedFiles(tf, p), (n \div 2) - 1)

\* C1 witness: a report with a month of two merged PRs of different times to merge
C1_EvenListReported ==
    /\ pc = "done"
    /\ \E p \in Listed("month") : \E j, k \in MergedFiles("month", p) :
           /\ Cardinality(MergedFiles("month", p)) = 2
           /\ FileTtm(j) < FileTtm(k)

\* the PR file has been read (the loop body ran to its end)
FileRead(k) == k \in DOMAIN pr_activity

\* what main() recorded for the one file of the backup, given the index m of
\* the merged event and c of the closed event the claim says it uses
RecordedAs(m, c) ==
    IF m # 0 THEN
        /\ Len(merged_prs) = 1
        /\ merged_prs[1].merge_date = pulls[1].events[m].created_at
        /\ merged_prs[1].author = FileAuthor(1)
        /\ merge_actors =
               IF pulls[1].events[m].actor # None
               THEN <<[merge_date |-> pulls[1].events[m].created_at,
                       merger |-> map_username(pulls[1].events[m].actor)]>>
               ELSE <<>>
        /\ closed_prs = <<>>
        /\ pr_activity[1].merged
    ELSE IF c # 0 THEN
        /\ Len(closed_prs) = 1
        /\ closed_prs[1].close_date = pulls[1].events[c].created_at
        /\ closed_prs[1].author = FileAuthor(1)
        /\ merged_prs = <<>> /\ merge_actors = <<>>
        /\ ~pr_activity[1].merged
    ELSE merged_prs = <<>> /\ closed_prs = <<>> /\ merge_actors = <<>>

\* every timestamp of file k is complete
FullTimestamps(k) ==
    /\ Len(pulls[k].created_at) = 3
    /\ \A j \in DOMAIN pulls[k].events : Len(pulls[k].events[j].created_at) = 3

\* C2 (as claimed): a PR with a merged event is recorded as merged with the
\* timestamp and actor of its FIRST merged event and never as closed; else one
\* with a closed event is recorded as closed with its first closed event; it
\* is never in both lists.  Stated for a PR whose timestamps are all complete.
C2_FirstMergedEventRecorded ==
    (Len(pulls) = 1 /\ FileRead(1) /\ FullTimestamps(1)) =>
        RecordedAs(IF HasMerged(1) THEN FirstOf(EventsOfKind(1, "merged")) ELSE 0,
                   IF EventsOfKind(1, "closed") # {}
                   THEN FirstOf(EventsOfKind(1, "closed")) ELSE 0)

\* the periods of tf that hold data of some statistic category
PeriodsWithData(tf) ==
    PeriodsOf(merged_prs, tf) \cup PeriodsOf(closed_prs, tf) \cup PeriodsOf(all_prs, tf)
    \cup {PeriodKey(tf, merge_actors[k].merge_date) : k \in DOMAIN merge_actors}
    \cup DOMAIN comment_counts[tf] \cup DOMAIN label_counts_pr[tf]
    \cup DOMAIN label_counts_issue[tf] \cup DOMAIN reviews_received[tf]
    \cup {PeriodKey(tf, review_age_events[k].ts) : k \in DOMAIN review_age_events}
    \cup UNION {DOMAIN timeframes[tf].contributor_stats[a] :
                    a \in DOMAIN timeframes[tf].contributor_stats}

\* C3 (as claimed): a period with data under any statistic category is in
\* the periods list, a closed-without-merge PR or an issue label alone
\* included, and every per-period map has an entry for each listed period.
C3_EveryPeriodWithDataListed ==
    \A tf \in DOMAIN timeframes :
        /\ PeriodsWithData(tf) \subseteq Listed(tf)
        /\ DOMAIN timeframes[tf].unique_author_counts = Listed(tf)
        /\ DOMAIN timeframes[tf].label_counts_issue = Listed(tf)
        /\ DOMAIN timeframes[tf].review_by_pr_age = Listed(tf)

\* the canonical handle of a raw user, None when there is none
Canonical(u) == IF u # None THEN map_username(u) ELSE None

\* the comments of the corpus as collect_comments counts them: the user and
\* date of every commented or reviewed event of a PR or an issue, and of
\* every standalone comment of a PR
CommentsOf(events, comments) ==
    {<<events[j].user, EventDate(events[j])>> :
         j \in {i \in DOMAIN events : events[i].event \in {"commented", "reviewed"}}}
    \cup {<<comments[j].user, comments[j].created_at>> : j \in DOMAIN comments}

CorpusComments ==
    UNION {CommentsOf(pulls[k].events, pulls[k].comments) : k \in Files}
    \cup UNION {CommentsOf(issues[k].events, <<>>) : k \in DOMAIN issues}

\* the handles that made a comment in period p of tf
CommentersIn(tf, p) ==
    {Canonical(c[1]) :
         c \in {x \in CorpusComments :
                    /\ x[1] # None
                    /\ Canonical(x[1]) \notin _IGNORE_USERS
                    /\ Len(x[2]) = 3
                    /\ PeriodKey(tf, x[2]) = p}}

\* the comments and reviews PR file k received, as the review loops count
\* them: the user and creation date of every commented or reviewed event and
\* standalone comment that is not of the author or of an ignored user
ReceivedBy(k) ==
    {c \in {<<pulls[k].events[j].user, pulls[k].events[j].created_at>> :
                j \in {i \in DOMAIN pulls[k].events :
                           pulls[k].events[i].event \in {"commented", "reviewed"}}}
           \cup {<<pulls[k].comments[j].user, pulls[k].comments[j].created_at>> :
                     j \in DOMAIN pulls[k].comments} :
         /\ Canonical(c[1]) \notin _IGNORE_USERS
         /\ Canonical(c[1]) # FileAuthor(k)
         /\ Len(c[2]) = 3}

\* the PR authors that received a comment or review in period p of tf
ReceiversIn(tf, p) ==
    {FileAuthor(k) : k \in {f \in Files : \E c \in ReceivedBy(f) : PeriodKey(tf, c[2]) = p}}

MergersIn(tf, p) == {FileAuthor(k) : k \in MergedFiles(tf, p)}

ClosersIn(tf, p) == {FileAuthor(k) : k \in ClosedFiles(tf, p)}

OpenersIn(tf, p) == {FileAuthor(k) : k \in OpenedFiles(tf, p)}

\* the authors active in period p in one of the four ways of the claim
ActiveIn(tf, p) ==
    MergersIn(tf, p) \cup ClosersIn(tf, p) \cup CommentersIn(tf, p) \cup ReceiversIn(tf, p)

\* the authors with a merged or a closed-without-merge PR somewhere
TerminalAuthors == {FileAuthor(k) : k \in {f \in Files : HasMerged(f) \/ HasClosedOnly(f)}}

AllPeriods(tf) == {PeriodKey(tf, d) : d \in Dates}

\* the entry of (a, p) counts the merges and is all zero without one
EntryCountsMerges(tf, a, p) ==
    LET e == timeframes[tf].contributor_stats[a][p]
        n == Cardinality({k \in MergedFiles(tf, p) : FileAuthor(k) = a})
    IN  /\ e.count = n
        /\ n = 0 => (e.avg_ttm = 0 /\ e.avg_additions = 0
                     /\ e.avg_deletions = 0 /\ e.avg_commits = 0)

\* C4 (as amended): contributor_stats has an entry (author, period) for every
\* author with a merged or closed-without-merge PR somewhere in the corpus
\* who in that period has a merged PR, a closed PR, a comment made or a review
\* received; a period without a merge reports count 0 and zero averages; an
\* author without any merged or closed PR has no entry at all.
C4_ContributorsArePrAuthors ==
    \A tf \in DOMAIN timeframes :
        LET cs == timeframes[tf].contributor_stats
        IN  /\ DOMAIN cs = TerminalAuthors
            /\ \A a \in TerminalAuthors : \A p \in AllPeriods(tf) :
                   /\ a \in ActiveIn(tf, p) <=> p \in DOMAIN cs[a]
                   /\ p \in DOMAIN cs[a] => EntryCountsMerges(tf, a, p)

\* C4 (as claimed): every author active in a period in one of the four ways
\* has an entry (author, period), an author who only commented or only
\* received reviews included, with count 0 and zero averages without a merge.
C4_EveryActiveAuthorHasEntry ==
    \A tf \in DOMAIN timeframes :
        LET cs == timeframes[tf].contributor_stats
        IN  \A p \in AllPeriods(tf) : \A a \in ActiveIn(tf, p) :
                /\ a \in DOMAIN cs
                /\ p \in DOMAIN cs[a]
                /\ EntryCountsMerges(tf, a, p)

\* C4 witness: a report where an author with a merged PR has a month with
\* only a review received, and the commenter, without any PR, has no entry
C4_ZeroEntryAndCommenterLeftOut ==
    /\ pc = "done"
    /\ \E a \in TerminalAuthors : \E p \in AllPeriods("month") :
           /\ a \in ReceiversIn("month", p)
           /\ a \notin MergersIn("month", p) \cup ClosersIn("month", p)
           /\ timeframes["month"].contributor_stats[a][p].count = 0
           /\ timeframes["month"].contributor_stats[a][p].reviews_received = 1
           /\ \E q \in AllPeriods("month") : MergersIn("month", q) = {a}
    /\ \E p \in AllPeriods("month") : CommentersIn("month", p) \ TerminalAuthors # {}

\* C5: for every rename table, chains and cycles included, and every handle,
\* map_username follows at most |mapping| + 1 links, never follows a link from
\* a handle twice, returns the first handle that has no link or was already
\* visited, and is idempotent.
C5_MapUsernameTerminatesIdempotent ==
    /\ links <= Cardinality(DOMAIN USERNAME_MAP) + 1
    /\ links = Cardinality(seen)
    /\ pc = "returned" =>
           /\ login \notin DOMAIN USERNAME_MAP \/ login \in seen
           /\ map_username(handle) = login
           /\ map_username(map_username(handle)) = map_username(handle)

\* C5 witness: a call that went round a rename cycle of two handles and
\* returned the handle it started from
C5_CycleResolved ==
    /\ pc = "returned"
    /\ links = 2
    /\ login = handle
    /\ login \in seen

\* the merged files of author a
MergedBy(a) == {k \in Files : HasMerged(k) /\ FileAuthor(k) = a}

\* the earliest merge date of author a
EarliestMerge(a) ==
    MergeDate(CHOOSE k \in MergedBy(a) :
                  \A j \in MergedBy(a) : ~TsLess(MergeDate(j), MergeDate(k)))

\* C6: in every timeframe an author with a merged PR is in first_time_authors
\* of exactly one period, the one of the earliest merge date of the author's
\* merged PRs; an author without a merged PR is in none.
C6_FirstTimeInOnePeriod ==
    \A tf \in DOMAIN timeframes : \A a \in {FileAuthor(k) : k \in Files} :
        LET ps == {p \in Listed(tf) : a \in timeframes[tf].first_time_authors[p]}
        IN  /\ MergedBy(a) # {} => ps = {PeriodKey(tf, EarliestMerge(a))}
            /\ MergedBy(a) = {} => ps = {}
            /\ \A p \in Listed(tf) :
                   timeframes[tf].first_time_author_counts[p]
                       = Cardinality(timeframes[tf].first_time_authors[p])

\* C6 witness: a report for an author whose later merge, of another month,
\* was read first
C6_LaterMergeReadFirst ==
    /\ pc = "done"
    /\ \E j, k \in Files :
           /\ j < k /\ HasMerged(j) /\ HasMerged(k) /\ FileAuthor(j) = FileAuthor(k)
           /\ TsLess(MergeDate(k), MergeDate(j))
           /\ PeriodKey("month", MergeDate(k)) # PeriodKey("month", MergeDate(j))

\* C7: in every timeframe and period, no_merge_authors is disjoint from
\* unique_authors, and when every author with a merge in the period also
\* opened a PR in it, their union is the set of the authors who opened a PR in
\* the period and the two counts add up to its size.
C7_NoMergeDisjointAndComplementary ==
    \A tf \in DOMAIN timeframes : \A p \in Listed(tf) :
        LET b == timeframes[tf]
        IN  /\ b.no_merge_authors[p] \cap b.unique_authors[p] = {}
            /\ MergersIn(tf, p) \subseteq OpenersIn(tf, p) =>
                   /\ b.no_merge_authors[p] \cup b.unique_authors[p] = OpenersIn(tf, p)
                   /\ b.unique_author_counts[p] + b.no_merge_author_counts[p]
                          = Cardinality(OpenersIn(tf, p))

\* C7 witness: a report with a month in which one author opened and merged a
\* PR and another opened one without a merge
C7_MergerAndNonMergerOpened ==
    /\ pc = "done"
    /\ \E p \in Listed("month") :
           /\ MergersIn("month", p) # {}
           /\ MergersIn("month", p) \subseteq OpenersIn("month", p)
           /\ OpenersIn("month", p) \ MergersIn("month", p) # {}

\* C8 (as claimed): a missing or short timestamp, on a PR's creation or on a
\* merged or closed event as on a comment, a review or an issue, never aborts
\* the run.
C8_ShortTimestampNeverAborts == pc # "aborted"

\* the rename table sends bob to robert, and robert is renamed no further
BobIsRenamed ==
    /\ "bob" \in DOMAIN USERNAME_MAP
    /\ USERNAME_MAP["bob"] = "robert"
    /\ "robert" \notin DOMAIN USERNAME_MAP

\* the handles a bundle is keyed or valued by
BundleHandles(b) ==
    DOMAIN b.contributor_stats
    \cup UNION {b.merge_access_users[p] \cup b.unique_authors[p] \cup b.no_merge_authors[p]
                \cup b.first_time_authors[p] \cup DOMAIN b.prolific_commenter_details[p]
                \cup DOMAIN b.merges_by_actor[p] \cup DOMAIN b.prs_by_author[p] :
                p \in Range(b.periods)}

ReportHandles ==
    UNION {BundleHandles(timeframes[tf]) : tf \in DOMAIN timeframes}
    \cup {pr_activity[k].author : k \in DOMAIN pr_activity}

\* the number of comments of raw user u dated in period p of tf on PR file k
CommentCount(k, u, tf, p) ==
    Cardinality({j \in DOMAIN pulls[k].events :
                    /\ pulls[k].events[j].event \in {"commented", "reviewed"}
                    /\ pulls[k].events[j].user = u
                    /\ Len(EventDate(pulls[k].events[j])) = 3
                    /\ PeriodKey(tf, EventDate(pulls[k].events[j])) = p})
    + Cardinality({j \in DOMAIN pulls[k].comments :
                      /\ pulls[k].comments[j].user = u
                      /\ Len(pulls[k].comments[j].created_at) = 3
                      /\ PeriodKey(tf, pulls[k].comments[j].created_at) = p})

\* the sections of bundle tf show what bob did on the one PR file under robert
BobShownAsRobert(tf) ==
    LET b == timeframes[tf]
        m == PeriodKey(tf, MergeDate(1))
    IN  /\ (HasMerged(1)
            /\ pulls[1].events[LastOf(EventsOfKind(1, "merged"))].actor = "bob") =>
                /\ "robert" \in b.merge_access_users[m]
                /\ b.merges_by_actor[m]["robert"] = 1
        /\ pulls[1].user = "bob" =>
                /\ pr_activity[1].author = "robert"
                /\ HasMerged(1) =>
                       /\ "robert" \in b.unique_authors[m]
                       /\ b.prs_by_author[m]["robert"] = 1
                /\ (HasMerged(1) \/ HasClosedOnly(1)) =>
                       \A p \in AllPeriods(tf) :
                           CommentCount(1, "bob", tf, p) > 0 =>
                               b.contributor_stats["robert"][p].comments
                                   = CommentCount(1, "bob", tf, p)

C10_ThreePrCorpusMonthReport ==
    "month" \in DOMAIN timeframes =>
        LET b == timeframes["month"]
        IN  /\ {<<2021, 1>>, <<2021, 2>>} \subseteq Range(b.periods)
            /\ b.unique_author_counts[<<2021, 1>>] = 1
            /\ b.no_merge_author_counts[<<2021, 1>>] = 0
            /\ b.avg_time_to_merge[<<2021, 1>>] = 20
            /\ b.unique_author_counts[<<2021, 2>>] = 1
            /\ b.ttm_by_size["L"][<<2021, 2>>] = 90
            /\ b.merge_access_counts[<<2021, 1>>] = 1
            /\ b.merge_access_counts[<<2021, 2>>] = 1

\* C10 witness: the report of the three PRs is written
C10_ThreePrReportWritten ==
    /\ pc = "done"
    /\ Range(pulls) = ThreePRs
    /\ "month" \in DOMAIN timeframes
    /\ timeframes["month"].unique_authors[<<2021, 2>>] \subseteq {"carol"}

\* the complete timestamps of what users other than the author (and other than
\* an ignored bot) did on PR file k: timeline events outside the skipped
\* kinds, and standalone review comments
NonAuthorStamps(k) ==
    {activity_date(pulls[k].events[j]) :
         j \in {i \in DOMAIN pulls[k].events :
                    /\ pulls[k].events[i].event \notin _SKIP_ACTIVITY_EVENTS
                    /\ activity_user(pulls[k].events[i]) \notin {None, FileAuthor(k)} \cup _IGNORE_USERS
                    /\ Len(activity_date(pulls[k].events[i])) = 3}}
    \cup {pulls[k].comments[j].created_at :
              j \in {i \in DOMAIN pulls[k].comments :
                         /\ Canonical(pulls[k].comments[i].user) \notin {None, FileAuthor(k)} \cup _IGNORE_USERS
                         /\ Len(pulls[k].comments[i].created_at) = 3}}

\* those strictly after the creation of the PR
ResponsesAfter(k) == {t \in NonAuthorStamps(k) : TsLess(pulls[k].created_at, t)}

EarliestOf(S) == CHOOSE t \in S : \A u \in S : ~TsLess(u, t)

\* C11 (as claimed): first_response_days of a PR is the time from its creation
\* to the earliest non-author event or standalone review comment strictly
\* after the creation; it is never zero or negative, and it is absent when
\* there is no such event.
C11_FirstResponseStrictlyAfterCreation ==
    \A k \in DOMAIN pr_activity :
        /\ pr_activity[k].first_response_days =
               IF ResponsesAfter(k) = {} THEN <<>>
               ELSE <<10 * DaysBetween(pulls[k].created_at, EarliestOf(ResponsesAfter(k)))>>
        /\ pr_activity[k].first_response_days # <<>> =>
               pr_activity[k].first_response_days[1] > 0

\* the PR without its events and standalone comments that carry no user
WithoutUserless(pr) ==
    [pr EXCEPT !.events = SelectSeq(@, LAMBDA ev : activity_user(ev) # None),
               !.comments = SelectSeq(@, LAMBDA c : c.user # None)]

NoReviews == [review_age_events |-> <<>>, reviews_received |-> EmptyCounts]

\* C12 (as claimed): an event or standalone comment without a user adds
\* nothing to any statistic: after the one PR file is read, the comment
\* counts, the reviews received by the author, the review age events behind
\* review_by_pr_age, the daily activity histogram, and the participants and
\* comments_received are those of the PR without its userless items.
C12_UserlessItemsAddNothing ==
    (Len(pulls) = 1 /\ pc = "pulls" /\ FileRead(1)) =>
        LET known == WithoutUserless(pulls[1])
        IN  /\ comment_counts = collect_comments(known.events, known.comments, EmptyCounts)
            /\ pr_activity[1].participants = activity_record(known).participants
            /\ pr_activity[1].comments_received = activity_record(known).comments_received
            /\ reviews_received = pr_reviews(known, NoReviews).reviews_received
            /\ review_age_events = pr_reviews(known, NoReviews).review_age_events
            /\ pr_activity[1].activity = activity_record(known).activity

\* the sum of f over the set S of its arguments
RECURSIVE SumOver(_, _)
SumOver(f, S) ==
    IF S = {} THEN 0
    ELSE LET x == CHOOSE y \in S : TRUE IN f[x] + SumOver(f, S \ {x})

\* the reviews and comments received in period p of tf, over all PR authors
ReceivedIn(tf, p) ==
    LET users == Get(reviews_received[tf], p, EmptyDict)
    IN  SumOver(users, DOMAIN users)

\* C15 (as claimed): every review or comment received by a PR author falls in
\* exactly one age bucket, one dated before the creation of its PR included:
\* in every listed period the bucket counts of review_by_pr_age add up to the
\* reviews_received of the period over all PR authors.  Stated for PRs whose
\* events and comments all carry a user.
C15_AgeBucketsSumToReviewsReceived ==
    (\A k \in Files : pulls[k] = WithoutUserless(pulls[k])) =>
        \A tf \in DOMAIN timeframes : \A p \in Listed(tf) :
            SumOver(timeframes[tf].review_by_pr_age[p], _AGE_BUCKET_LABELS) = ReceivedIn(tf, p)

\* the ingested data and the global facts the aggregations read
Ingested ==
    <<merged_prs, closed_prs, all_prs, merge_actors, comment_counts, label_counts_pr,
      label_counts_issue, review_age_events, reviews_received, pr_activity,
      all_maintainers, author_first_merge>>

\* an aggregation step leaves the ingested data, the global facts and the
\* bundles of the other timeframes as they are
AggregationWritesOwnBundle ==
    pc = "timeframes" =>
        /\ Ingested' = Ingested
        /\ \A tf \in DOMAIN timeframes :
               tf \in DOMAIN timeframes' /\ timeframes'[tf] = timeframes[tf]

TotalMerged(tf, a) ==
    LET by == timeframes[tf].prs_by_author
        of == [p \in DOMAIN by |-> Get(by[p], a, 0)]
    IN  SumOver(of, DOMAIN by)

\* the quarter a month lies in
QuarterOf(m) == <<m[1], ((m[2] - 1) \div 3) + 1>>

\* unique_authors of the months of the month timeframe that satisfy In
MonthAuthors(In(_)) ==
    UNION {timeframes["month"].unique_authors[m] : m \in {x \in Listed("month") : In(x)}}

\* C14: the three timeframes roll up the same records.  For every author the
\* merged PRs summed over the periods of prs_by_author are the same number in
\* the year, quarter and month timeframes (the number of merged PR files of
\* the author); unique_authors of a year or a quarter is the union of
\* unique_authors of the months it contains, each listed month lying in a
\* listed year and quarter; and the top-5 author set is the same in the three
\* timeframes.
C14_TimeframesRollUp ==
    pc = "done" =>
        /\ \A a \in {FileAuthor(k) : k \in Files} : \A tf \in Timeframes :
               TotalMerged(tf, a) = Cardinality({k \in Files : HasMerged(k) /\ FileAuthor(k) = a})
        /\ \A y \in Listed("year") :
               timeframes["year"].unique_authors[y] = MonthAuthors(LAMBDA m : m[1] = y[1])
        /\ \A q \in Listed("quarter") :
               timeframes["quarter"].unique_authors[q] = MonthAuthors(LAMBDA m : QuarterOf(m) = q)
        /\ \A m \in Listed("month") :
               <<m[1]>> \in Listed("year") /\ QuarterOf(m) \in Listed("quarter")
        /\ top5_authors("year") = top5_authors("month")
        /\ top5_authors("quarter") = top5_authors("month")

\* C14 witness: a report over three months, two of them in one quarter, where
\* the top-5 cut leaves a merging author out
C14_CutLeavesAuthorOut ==
    /\ pc = "done"
    /\ Cardinality(Listed("month")) = 3
    /\ Cardinality(Listed("quarter")) = 2
    /\ Cardinality(top5_authors("month")) = TopN
    /\ \E p \in Listed("month") : timeframes["month"].unique_authors[p] \ top5_authors("month") # {}

====
